---- MODULE Spec2Model ----
(***************************************************************************)
(* FastMap<T>: a fixed-size 2D map over one linear JavaScript array.       *)
(*                                                                         *)
(* The repository holds four versions of the class; the model carries the  *)
(* version as the variable `variant`, fixed at Init:                       *)
(*   "index"     src/src/index.ts          no size validation, no          *)
(*                                         Number.isInteger in the check   *)
(*   "validated" src/unnamed/part_001      validateSize + isInteger        *)
(*   "memo"      src/unnamed/part_002:1    validated + memoCache on Get    *)
(*   "unsafe"    src/unnamed/part_002:134  validated, undefined as absent, *)
(*                                         no fill, GetUnsafe/SetUnsafe    *)
(*                                                                         *)
(* JavaScript numbers are modelled as records [k, h]: k = "fin" is the     *)
(* finite number h/2 (so 0.5 is representable), k = "nan" is NaN and       *)
(* k = "inf" is +Infinity (h = 1) or -Infinity (h = -1).  A product of two *)
(* numbers is counted in quarters and kept as a two-limb value <<hi, lo>>  *)
(* of base 65536, because width * height is compared with 2^32 - 1.        *)
(* Array property keys are integers counting quarters: key 4*i is the      *)
(* array index i, any other key is an ordinary (non-index) property.       *)
(***************************************************************************)
EXTENDS Integers, Sequences, FiniteSets, TLC

VARIABLES variant, pc, width, height, length, filled, elems, memoCache, last

vars == <<variant, pc, width, height, length, filled, elems, memoCache, last>>

Variants == {"index", "validated", "memo", "unsafe"}

(* ---------------------------- numbers ---------------------------------- *)

Fin(h) == [k |-> "fin", h |-> h]

Int2(i) == Fin(2 * i)

NaN == [k |-> "nan", h |-> 0]

PosInf == [k |-> "inf", h |-> 1]

NegInf == [k |-> "inf", h |-> -1]

Zero == Int2(0)

\* Number.isInteger(n)
IsInteger(n) == n.k = "fin" /\ n.h % 2 = 0

\* a < b on JavaScript numbers (false whenever NaN is involved)
Lt(a, b) ==
    /\ a.k # "nan"
    /\ b.k # "nan"
    /\ \/ a.k = "fin" /\ b.k = "fin" /\ a.h < b.h
       \/ a.k = "fin" /\ b.k = "inf" /\ b.h = 1
       \/ a.k = "inf" /\ a.h = -1 /\ b.k = "fin"
       \/ a.k = "inf" /\ b.k = "inf" /\ a.h < b.h

\* a <= b
Le(a, b) == a.k # "nan" /\ b.k # "nan" /\ ~Lt(b, a)

\* a >= b
Ge(a, b) == Le(b, a)

Abs(i) == IF i < 0 THEN -i ELSE i

Sign(i) == IF i < 0 THEN -1 ELSE IF i = 0 THEN 0 ELSE 1

\* a * b for naturals below 2^20, as <<hi, lo>> with a * b = hi * 65536 + lo
WideMul(a, b) ==
    LET a1 == a \div 256
        a0 == a % 256
        b1 == b \div 256
        b0 == b % 256
        mid == a1 * b0 + a0 * b1
        low == (mid % 256) * 256 + a0 * b0
    IN  <<a1 * b1 + mid \div 256 + low \div 65536, low % 65536>>

WideLt(p, q) == p[1] < q[1] \/ (p[1] = q[1] /\ p[2] < q[2])

WideOfNat(n) == <<n \div 65536, n % 65536>>

\* width * height as a JavaScript number: [k, s, q] with k as for numbers,
\* s the sign and q the magnitude in quarters
Times(a, b) ==
    IF a.k = "nan" \/ b.k = "nan" THEN [k |-> "nan", s |-> 0, q |-> <<0, 0>>]
    ELSE IF a.k = "inf" \/ b.k = "inf"
         THEN IF (a.k = "fin" /\ a.h = 0) \/ (b.k = "fin" /\ b.h = 0)
              THEN [k |-> "nan", s |-> 0, q |-> <<0, 0>>]
              ELSE [k |-> "inf", s |-> Sign(a.h) * Sign(b.h), q |-> <<0, 0>>]
         ELSE [k |-> "fin", s |-> Sign(a.h) * Sign(b.h),
               q |-> WideMul(Abs(a.h), Abs(b.h))]

\* Math.pow(2, 32) - 1 in quarters: 4 * (2^32 - 1) = 262143 * 65536 + 65532
MaxArrayLengthQ == <<262143, 65532>>

\* p > Math.pow(2, 32) - 1 for a product p
ExceedsMax(p) ==
    \/ p.k = "inf" /\ p.s = 1
    \/ p.k = "fin" /\ p.s = 1 /\ WideLt(MaxArrayLengthQ, p.q)

\* new Array(n) accepts n iff n is an integer with 0 <= n <= 2^32 - 1
IsArrayLength(p) ==
    /\ p.k = "fin"
    /\ p.s >= 0
    /\ p.q[2] % 4 = 0
    /\ ~WideLt(MaxArrayLengthQ, p.q)

\* the length new Array(n) gets: the quarters of n divided by four
ToLength(p) == <<p.q[1] \div 4, ((p.q[1] % 4) * 65536 + p.q[2]) \div 4>>

(* ----------------------------- values ---------------------------------- *)

\* values of T: "0" is the number 0 (falsy), "7" the number 7 (truthy)
T == {"0", "7"}

Falsy(v) == v \in {"0", "null", "undefined"}

\* the absent marker of a version: null, or undefined in the last version
Absent(vt) == IF vt = "unsafe" THEN "undefined" ELSE "null"

Settable(vt) == T \cup {Absent(vt)}

(* ------------------------------ state ---------------------------------- *)

\* `last` is the call made last: its arguments, whether it threw and with which
\* message, (for a write) the value the slot held before, and what it returned
\* (ret), or the number it returned (num)
NoCall == [op |-> "none", x |-> Zero, y |-> Zero, v |-> "none", old |-> "none",
           threw |-> FALSE, ret |-> "none", num |-> Zero, msg |-> ""]

Call(op, x, y, v, old, ret) ==
    [op |-> op, x |-> x, y |-> y, v |-> v, old |-> old,
     threw |-> FALSE, ret |-> ret, num |-> Zero, msg |-> ""]

CallNum(op, num) ==
    [op |-> op, x |-> Zero, y |-> Zero, v |-> "none", old |-> "none",
     threw |-> FALSE, ret |-> "number", num |-> num, msg |-> ""]

Throw(op, x, y, v, msg) ==
    [op |-> op, x |-> x, y |-> y, v |-> v, old |-> "none",
     threw |-> TRUE, ret |-> "none", num |-> Zero, msg |-> msg]

EmptyMap == [k \in {} |-> "null"]

\* the field initialisers of the class: map = [], width = 0, height = 0
Init ==
    /\ variant \in Variants
    /\ pc = "none"
    /\ width = Zero
    /\ height = Zero
    /\ length = <<0, 0>>
    /\ filled = <<0, 0>>
    /\ elems = EmptyMap
    /\ memoCache = EmptyMap
    /\ last = NoCall

(* --------------------------- construction ------------------------------ *)

\* validateSize with the ceiling compared by >= instead of >
validateSizeGe(w, h) ==
    IF ~IsInteger(w) \/ ~IsInteger(h)
    THEN "Width and Geight must be Integer values"
    ELSE IF Le(w, Zero) \/ Le(h, Zero)
         THEN "Width and height must be greater than 0"
         ELSE IF ~WideLt(Times(w, h).q, MaxArrayLengthQ)
              THEN "Specified dimensions are too large"
              ELSE ""

\* validateSize of src/unnamed/part_001: the message thrown, "" when none is
validateSize(w, h) ==
    IF ~IsInteger(w) \/ ~IsInteger(h)
    THEN "Width and Geight must be Integer values"
    ELSE IF Le(w, Zero) \/ Le(h, Zero)
         THEN "Width and height must be greater than 0"
         ELSE IF ExceedsMax(Times(w, h))
              THEN "Specified dimensions are too large"
              ELSE ""

\* validateSize of src/unnamed/part_002 (both classes)
validateSizeV2(w, h) ==
    IF ~IsInteger(w) \/ ~IsInteger(h)
    THEN "Width and Height must be Integer values"
    ELSE IF Le(w, Zero) \/ Le(h, Zero)
         THEN "Width and height must be greater than 0"
         ELSE IF ExceedsMax(Times(w, h))
              THEN "Specified dimensions are too large"
              ELSE ""

\* the validation a version runs first in its constructor
Validation(w, h) ==
    IF variant = "index" THEN ""
    ELSE IF variant = "validated" THEN validateSize(w, h)
    ELSE validateSizeV2(w, h)

\* new Array(width * height): "" or the RangeError of the Array constructor
NewArray(w, h) ==
    IF IsArrayLength(Times(w, h)) THEN "" ELSE "Invalid array length"

\* a constructor that leaves the new array unfilled
FillCountNone(w, h) == <<0, 0>>

\* this.map.fill(null): how many leading slots hold null afterwards
FillCount(w, h) ==
    IF variant = "unsafe" THEN <<0, 0>> ELSE ToLength(Times(w, h))

\* new FastMap(w, h).  A throw in the constructor yields no object.
constructor(w, h) ==
    /\ pc # "ready"
    /\ LET msg == IF Validation(w, h) # "" THEN Validation(w, h) ELSE NewArray(w, h)
       IN  IF msg # ""
           THEN /\ pc' = "failed"
                /\ last' = Throw("new", w, h, "none", msg)
                /\ UNCHANGED <<variant, width, height, length, filled, elems, memoCache>>
           ELSE /\ pc' = "ready"
                /\ width' = w
                /\ height' = h
                /\ length' = ToLength(Times(w, h))
                /\ filled' = FillCount(w, h)
                /\ elems' = EmptyMap
                /\ memoCache' = EmptyMap
                /\ last' = Call("new", w, h, "none", "none", "none")
                /\ UNCHANGED variant

(* ----------------------------- the array ------------------------------- *)

IsIndexKey(k) == k >= 0 /\ k % 4 = 0

IndexOf(k) == WideOfNat(k \div 4)

\* this.map[k]
ArrayGet(k) ==
    IF k \in DOMAIN elems THEN elems[k]
    ELSE IF IsIndexKey(k) /\ WideLt(IndexOf(k), filled) THEN "null"
    ELSE "undefined"

\* an assignment that skips absent values (if (value) this.map[k] = value)
ElemsPutSkipAbsent(k, v) ==
    IF v \in {"null", "undefined"} THEN elems
    ELSE [j \in DOMAIN elems \cup {k} |-> IF j = k THEN v ELSE elems[j]]

\* the own properties after this.map[k] = v.  A property is listed only when
\* a read of it differs from the read of an unlisted key: not when it holds
\* undefined, nor when it is a filled slot that holds null again.
ElemsPut(k, v) ==
    IF v = "undefined" \/ (v = "null" /\ IsIndexKey(k) /\ WideLt(IndexOf(k), filled))
    THEN [j \in DOMAIN elems \ {k} |-> elems[j]]
    ELSE [j \in DOMAIN elems \cup {k} |-> IF j = k THEN v ELSE elems[j]]

\* the length after this.map[k] = v: writing at or past the end grows the array
LengthPut(k) ==
    IF IsIndexKey(k) /\ ~WideLt(IndexOf(k), length)
    THEN WideOfNat(k \div 4 + 1)
    ELSE length

(* ---------------------------- operations ------------------------------- *)

\* the mapping with the height as the row stride
Convert2DTo1DByHeight(x, y) == y.h * height.h + 2 * x.h

\* y * this.width + x, in quarters
Convert2DTo1D(x, y) == y.h * width.h + 2 * x.h

\* src/src/index.ts
CheckIndicesAreValid(x, y) ==
    /\ Ge(x, Zero)
    /\ Lt(x, width)
    /\ Ge(y, Zero)
    /\ Lt(y, height)

\* the check with x <= this.width and y <= this.height
checkIndicesOffByOne(x, y) ==
    /\ IsInteger(x)
    /\ IsInteger(y)
    /\ Ge(x, Zero)
    /\ Le(x, width)
    /\ Ge(y, Zero)
    /\ Le(y, height)

\* src/unnamed/part_001 and part_002
checkIndicesAreValid(x, y) ==
    /\ IsInteger(x)
    /\ IsInteger(y)
    /\ Ge(x, Zero)
    /\ Lt(x, width)
    /\ Ge(y, Zero)
    /\ Lt(y, height)

IndicesValid(x, y) ==
    IF variant = "index" THEN CheckIndicesAreValid(x, y) ELSE checkIndicesAreValid(x, y)

OutOfBounds == "Index out of bounds"

\* a key built from x alone
MemoKeyOfX(x, y) == <<x, x>>

\* the key `${x},${y}` of the memo cache
MemoKey(x, y) == <<x, y>>

\* What Get(x, y) does in the current state: [threw, ret, caches]
GetOutcome(x, y) ==
    IF variant = "memo" /\ MemoKey(x, y) \in DOMAIN memoCache
    THEN [threw |-> FALSE,
          ret |-> IF Falsy(memoCache[MemoKey(x, y)]) THEN "null"
                  ELSE memoCache[MemoKey(x, y)],
          caches |-> FALSE]
    ELSE IF ~IndicesValid(x, y)
         THEN [threw |-> TRUE, ret |-> "none", caches |-> FALSE]
         ELSE [threw |-> FALSE, ret |-> ArrayGet(Convert2DTo1D(x, y)),
               caches |-> variant = "memo"]

Get(x, y) ==
    /\ pc = "ready"
    /\ variant # "memo"
    /\ last' = IF GetOutcome(x, y).threw
               THEN Throw("Get", x, y, "none", OutOfBounds)
               ELSE Call("Get", x, y, "none", "none", GetOutcome(x, y).ret)
    /\ UNCHANGED <<variant, pc, width, height, length, filled, elems, memoCache>>

GetMemo(x, y) ==
    /\ pc = "ready"
    /\ variant = "memo"
    /\ last' = IF GetOutcome(x, y).threw
               THEN Throw("Get", x, y, "none", OutOfBounds)
               ELSE Call("Get", x, y, "none", "none", GetOutcome(x, y).ret)
    /\ memoCache' = IF GetOutcome(x, y).caches
                    THEN [j \in DOMAIN memoCache \cup {MemoKey(x, y)} |->
                            IF j = MemoKey(x, y) THEN GetOutcome(x, y).ret
                            ELSE memoCache[j]]
                    ELSE memoCache
    /\ UNCHANGED <<variant, pc, width, height, length, filled, elems>>

\* Set with the assignment placed before the validation
SetWriteFirst(x, y, value) ==
    /\ pc = "ready"
    /\ variant # "memo"
    /\ elems' = ElemsPut(Convert2DTo1D(x, y), value)
    /\ length' = LengthPut(Convert2DTo1D(x, y))
    /\ last' = IF ~IndicesValid(x, y)
               THEN Throw("Set", x, y, value, OutOfBounds)
               ELSE Call("Set", x, y, value, ArrayGet(Convert2DTo1D(x, y)), "void")
    /\ UNCHANGED <<variant, pc, width, height, filled, memoCache>>

Set(x, y, value) ==
    /\ pc = "ready"
    /\ variant # "memo"
    /\ IF ~IndicesValid(x, y)
       THEN /\ last' = Throw("Set", x, y, value, OutOfBounds)
            /\ UNCHANGED <<elems, length>>
       ELSE /\ elems' = ElemsPut(Convert2DTo1D(x, y), value)
            /\ length' = LengthPut(Convert2DTo1D(x, y))
            /\ last' = Call("Set", x, y, value, ArrayGet(Convert2DTo1D(x, y)), "void")
    /\ UNCHANGED <<variant, pc, width, height, filled, memoCache>>

\* Set of the memoized version without the cache invalidation
SetMemoStale(x, y, value) ==
    /\ pc = "ready"
    /\ variant = "memo"
    /\ IF ~IndicesValid(x, y)
       THEN /\ last' = Throw("Set", x, y, value, OutOfBounds)
            /\ UNCHANGED <<elems, length>>
       ELSE /\ elems' = ElemsPut(Convert2DTo1D(x, y), value)
            /\ length' = LengthPut(Convert2DTo1D(x, y))
            /\ last' = Call("Set", x, y, value, ArrayGet(Convert2DTo1D(x, y)), "void")
    /\ UNCHANGED <<variant, pc, width, height, filled, memoCache>>

SetMemo(x, y, value) ==
    /\ pc = "ready"
    /\ variant = "memo"
    /\ IF ~IndicesValid(x, y)
       THEN /\ last' = Throw("Set", x, y, value, OutOfBounds)
            /\ UNCHANGED <<elems, length, memoCache>>
       ELSE /\ elems' = ElemsPut(Convert2DTo1D(x, y), value)
            /\ length' = LengthPut(Convert2DTo1D(x, y))
            /\ memoCache' = [j \in DOMAIN memoCache \ {MemoKey(x, y)} |-> memoCache[j]]
            /\ last' = Call("Set", x, y, value, ArrayGet(Convert2DTo1D(x, y)), "void")
    /\ UNCHANGED <<variant, pc, width, height, filled>>

\* GetUnsafe reading x * this.width + y
GetUnsafeTransposed(x, y) ==
    /\ pc = "ready"
    /\ variant = "unsafe"
    /\ last' = Call("GetUnsafe", x, y, "none", "none", ArrayGet(x.h * width.h + 2 * y.h))
    /\ UNCHANGED <<variant, pc, width, height, length, filled, elems, memoCache>>

GetUnsafe(x, y) ==
    /\ pc = "ready"
    /\ variant = "unsafe"
    /\ last' = Call("GetUnsafe", x, y, "none", "none", ArrayGet(y.h * width.h + 2 * x.h))
    /\ UNCHANGED <<variant, pc, width, height, length, filled, elems, memoCache>>

\* SetUnsafe writing y * this.height + x
SetUnsafeByHeight(x, y, value) ==
    /\ pc = "ready"
    /\ variant = "unsafe"
    /\ elems' = ElemsPut(y.h * height.h + 2 * x.h, value)
    /\ length' = LengthPut(y.h * height.h + 2 * x.h)
    /\ last' = Call("SetUnsafe", x, y, value, ArrayGet(y.h * height.h + 2 * x.h), "void")
    /\ UNCHANGED <<variant, pc, width, height, filled, memoCache>>

SetUnsafe(x, y, value) ==
    /\ pc = "ready"
    /\ variant = "unsafe"
    /\ elems' = ElemsPut(y.h * width.h + 2 * x.h, value)
    /\ length' = LengthPut(y.h * width.h + 2 * x.h)
    /\ last' = Call("SetUnsafe", x, y, value, ArrayGet(y.h * width.h + 2 * x.h), "void")
    /\ UNCHANGED <<variant, pc, width, height, filled, memoCache>>

\* Width returning this.height
WidthOfHeight ==
    /\ pc = "ready"
    /\ last' = CallNum("Width", height)
    /\ UNCHANGED <<variant, pc, width, height, length, filled, elems, memoCache>>

Width ==
    /\ pc = "ready"
    /\ last' = CallNum("Width", width)
    /\ UNCHANGED <<variant, pc, width, height, length, filled, elems, memoCache>>

Height ==
    /\ pc = "ready"
    /\ last' = CallNum("Height", height)
    /\ UNCHANGED <<variant, pc, width, height, length, filled, elems, memoCache>>

(* --------------------------- inputs and specs -------------------------- *)

MaxCoord == 2

Half == Fin(1)

\* the dimensions tried by the full specification: -1, 0, 1 and 2, and the
\* pair (2, 1.5), which src/src/index.ts accepts
SmallDims == {Int2(-1), Int2(0), Int2(1), Int2(2)}

DimPairs == (SmallDims \X SmallDims) \cup {<<Int2(2), Fin(3)>>}

\* the dimensions tried by the construction-only specification: the small ones,
\* 1.5, 2.5, 5, the values around 2^16 whose products straddle 2^32 - 1, and the
\* non-finite numbers
AllDims ==
    SmallDims \cup {Fin(3), Fin(5), Int2(5), Int2(65535), Int2(65536), Int2(65537),
                    NaN, PosInf, NegInf}

IntCoords == {Int2(i) : i \in -1 .. MaxCoord}

InSquare(n) == n \in {Int2(0), Int2(1)}

\* the coordinates tried by the checked accessors: the square 0..1 x 0..1, the
\* integer coordinates beside it on either axis, and non-integer ones
Coords ==
    {c \in IntCoords \X IntCoords :
        \/ InSquare(c[1]) /\ InSquare(c[2])
        \/ c[1] = Zero
        \/ c[2] = Zero}
        \cup {<<Half, Zero>>, <<Zero, Half>>, <<NaN, Zero>>}

\* the coordinates tried by the unchecked accessors: the non-negative integer
\* ones (in range, aliasing another slot, or at and past the end of the array)
UnsafeCoords ==
    {c \in Coords :
        IsInteger(c[1]) /\ IsInteger(c[2]) /\ Ge(c[1], Zero) /\ Ge(c[2], Zero)}

Next ==
    \/ \E d \in DimPairs : constructor(d[1], d[2])
    \/ \E c \in Coords : Get(c[1], c[2])
    \/ \E c \in Coords : GetMemo(c[1], c[2])
    \/ \E c \in Coords, value \in Settable(variant) : Set(c[1], c[2], value)
    \/ \E c \in Coords, value \in Settable(variant) : SetMemo(c[1], c[2], value)
    \/ \E c \in UnsafeCoords : GetUnsafe(c[1], c[2])
    \/ \E c \in UnsafeCoords, value \in Settable(variant) : SetUnsafe(c[1], c[2], value)
    \/ Width
    \/ Height

Spec == Init /\ [][Next]_vars

\* construction alone, over all the dimensions
NextNew == \E w \in AllDims, h \in AllDims : constructor(w, h)

SpecNew == Init /\ [][NextNew]_vars

MaxDim == 3

\* the grids of the mapping specification: every width and height in 1 .. MaxDim
MapDims == {<<Int2(w), Int2(h)>> : w \in 1 .. MaxDim, h \in 1 .. MaxDim}

\* the four corners of the grid
Corners ==
    {<<x, y>> : x \in {Zero, Fin(width.h - 2)}, y \in {Zero, Fin(height.h - 2)}}

\* construction of a grid of any of these sizes, then reads and writes of the
\* value 7 at its corners through every accessor
NextMap ==
    \/ \E d \in MapDims : constructor(d[1], d[2])
    \/ \E c \in Corners : Get(c[1], c[2])
    \/ \E c \in Corners : GetMemo(c[1], c[2])
    \/ \E c \in Corners : Set(c[1], c[2], "7")
    \/ \E c \in Corners : SetMemo(c[1], c[2], "7")
    \/ \E c \in Corners : GetUnsafe(c[1], c[2])
    \/ \E c \in Corners : SetUnsafe(c[1], c[2], "7")

SpecMap == Init /\ [][NextMap]_vars

(* ------------------------------ claims --------------------------------- *)

\* an integer coordinate pair inside [0, width) x [0, height)
InRange(x, y) ==
    /\ x.k = "fin" /\ x.h % 2 = 0 /\ 0 <= x.h /\ x.h < width.h
    /\ y.k = "fin" /\ y.h % 2 = 0 /\ 0 <= y.h /\ y.h < height.h

\* an integer coordinate pair outside [0, width) x [0, height)
OutOfRange(x, y) ==
    /\ x.k = "fin" /\ x.h % 2 = 0
    /\ y.k = "fin" /\ y.h % 2 = 0
    /\ (x.h < 0 \/ x.h >= width.h \/ y.h < 0 \/ y.h >= height.h)

NonInteger(n) == n.k # "fin" \/ n.h % 2 # 0

Returns(x, y, v) == ~GetOutcome(x, y).threw /\ GetOutcome(x, y).ret = v

\* a dimension that is zero, negative, non-integer or non-finite
InvalidDim(n) == n.k # "fin" \/ n.h % 2 # 0 \/ n.h <= 0

\* C1: a grid freshly constructed with a valid width w > 0 and height h > 0
\* (positive integers) has Width() = w and Height() = h, and Get(x, y) returns
\* the absent marker for every integer coordinate with 0 <= x < w, 0 <= y < h.
C1_FreshGridIsAbsent ==
    (pc = "ready" /\ last.op = "new" /\ ~InvalidDim(last.x) /\ ~InvalidDim(last.y)) =>
        /\ width = last.x
        /\ height = last.y
        /\ \A c \in Coords : InRange(c[1], c[2]) => Returns(c[1], c[2], Absent(variant))

C1_Witness ==
    /\ pc = "ready" /\ last.op = "new"
    /\ last.x = Int2(2) /\ last.y = Int2(2)
    /\ \E c \in Coords : InRange(c[1], c[2]) /\ c[1] # Zero /\ c[2] # Zero

\* C2: for an in-range coordinate, a Get directly after a successful
\* Set(x, y, v) returns v, whatever the slot held before.
C2_SetThenGet ==
    (last.op = "Set" /\ ~last.threw /\ InRange(last.x, last.y)) =>
        Returns(last.x, last.y, last.v)

C2_Witness ==
    /\ last.op = "Set" /\ ~last.threw /\ InRange(last.x, last.y)
    /\ last.old \in T /\ last.v \in T /\ last.old # last.v

\* C3: Set(x, y, v) then Set(x, y, absent) then Get(x, y) returns the absent
\* marker, which is what Get returns for a slot that was never written.
C3_ClearThenGet ==
    (/\ last.op = "Set" /\ ~last.threw /\ InRange(last.x, last.y)
     /\ last.old \in T /\ last.v = Absent(variant)) =>
        Returns(last.x, last.y, Absent(variant))

C3_Witness ==
    /\ last.op = "Set" /\ ~last.threw /\ InRange(last.x, last.y)
    /\ last.old \in T /\ last.v = Absent(variant)

\* C4: a successful Set(x1, y1, v) leaves what Get returns unchanged at every
\* in-range coordinate other than (x1, y1).
C4_SetIndependence ==
    [][(last'.op = "Set" /\ ~last'.threw) =>
          \A c \in Coords :
              (InRange(c[1], c[2]) /\ c # <<last'.x, last'.y>>) =>
                  GetOutcome(c[1], c[2])' = GetOutcome(c[1], c[2])]_vars

\* C5: for every integer coordinate outside the grid, Get and Set fail with
\* "Index out of bounds" and Get returns no value.
C5_OutOfBoundsThrows ==
    (last.op \in {"Get", "Set"} /\ OutOfRange(last.x, last.y)) =>
        /\ last.threw
        /\ last.msg = "Index out of bounds"
        /\ last.ret = "none"

C5_Witness ==
    /\ last.op = "Get" /\ last.threw
    /\ last.x = width /\ last.y = Zero /\ Lt(Zero, height)

\* C6: for every coordinate with a non-integer x or y, Get and Set fail with
\* the out-of-bounds error and neither read nor write a slot.
C6_NonIntegerThrows ==
    (last.op \in {"Get", "Set"} /\ (NonInteger(last.x) \/ NonInteger(last.y))) =>
        /\ last.threw
        /\ last.msg = "Index out of bounds"
        /\ last.ret = "none"

\* C7: a Set that fails its validation leaves every slot, the storage length,
\* the width and the height as they were.
C7_FailedSetChangesNothing ==
    [][(last'.op = "Set" /\ last'.threw) =>
          /\ elems' = elems
          /\ filled' = filled
          /\ length' = length
          /\ width' = width
          /\ height' = height
          /\ memoCache' = memoCache]_vars

C7_Witness == last.op = "Set" /\ last.threw /\ elems # EmptyMap

\* C8: construction with a width or height that is zero, negative, non-integer
\* or non-finite always fails and yields no grid.
C8_InvalidSizeRejected ==
    (last.op = "new" /\ (InvalidDim(last.x) \/ InvalidDim(last.y))) =>
        last.threw /\ pc = "failed"

WideAdd(p, q) ==
    <<p[1] + q[1] + (p[2] + q[2]) \div 65536, (p[2] + q[2]) % 65536>>

\* a * b by doubling, as <<hi, lo>> of base 65536
RECURSIVE Product(_, _)
Product(a, b) ==
    IF b = 0 THEN <<0, 0>>
    ELSE LET half == Product(a, b \div 2)
         IN  IF b % 2 = 1
             THEN WideAdd(WideAdd(half, half), WideOfNat(a))
             ELSE WideAdd(half, half)

\* C9: construction with positive integer width and height is rejected exactly
\* when width * height exceeds 2^32 - 1, and an accepted one allocates exactly
\* width * height slots.
C9_SizeCeiling ==
    (last.op = "new" /\ ~InvalidDim(last.x) /\ ~InvalidDim(last.y)) =>
        LET n == Product(last.x.h \div 2, last.y.h \div 2)
        IN  IF WideLt(<<65535, 65535>>, n)
            THEN last.threw /\ pc = "failed"
            ELSE ~last.threw /\ pc = "ready" /\ length = n

C9_Witness ==
    /\ last.op = "new" /\ ~last.threw /\ pc = "ready"
    /\ last.x = Int2(65535) /\ last.y = Int2(65537)
    /\ length = <<65535, 65535>>

\* the cause a message names
MessageKind(m) ==
    IF m \in {"Width and Geight must be Integer values",
              "Width and Height must be Integer values"} THEN "non-integer"
    ELSE IF m = "Width and height must be greater than 0" THEN "non-positive"
    ELSE IF m = "Specified dimensions are too large" THEN "too large"
    ELSE "other"

\* the cause of a rejection, the non-integer test coming first
Cause(w, h) ==
    IF NonInteger(w) \/ NonInteger(h) THEN "non-integer"
    ELSE IF w.h <= 0 \/ h.h <= 0 THEN "non-positive"
    ELSE "too large"

\* C10: a rejected construction reports a message that names its cause:
\* non-integer (tested first), non-positive, or too large.
C10_MessageNamesCause ==
    (last.op = "new" /\ last.threw) => MessageKind(last.msg) = Cause(last.x, last.y)

\* the storage length equals width * height (both in halves, so in quarters)
LengthIsProduct ==
    /\ (width.h * height.h) % 4 = 0
    /\ length = <<0, (width.h * height.h) \div 4>>

ValidGrid == ~InvalidDim(width) /\ ~InvalidDim(height)

Observed(x, y) == <<GetOutcome(x, y).threw, GetOutcome(x, y).ret>>

\* C12: a Get call, successful or failed, changes nothing that a later call
\* can observe: the grid is as it was and every Get that follows, at the same
\* or at another coordinate, returns what it would have returned before, so
\* consecutive Get(x, y) calls all return the value last written, falsy
\* values included.
C12_GetIsObservational ==
    [][last'.op = "Get" =>
          /\ elems' = elems
          /\ length' = length
          /\ width' = width
          /\ height' = height
          /\ \A c \in Coords : Observed(c[1], c[2])' = Observed(c[1], c[2])]_vars

\* C13: at an integer coordinate inside the grid, GetUnsafe(x, y) returns what
\* Get(x, y) returns and changes nothing, and SetUnsafe(x, y, v) leaves the
\* grid as Set(x, y, v) leaves it: the slot y * width + x holds v and the
\* length, the width and the height are as before.
C13_UncheckedMatchesChecked ==
    [][/\ (last'.op = "GetUnsafe" /\ InRange(last'.x, last'.y)) =>
              /\ ~GetOutcome(last'.x, last'.y).threw
              /\ last'.ret = GetOutcome(last'.x, last'.y).ret
              /\ UNCHANGED <<elems, length, filled, width, height>>
       /\ (last'.op = "SetUnsafe" /\ InRange(last'.x, last'.y)) =>
              /\ IndicesValid(last'.x, last'.y)
              /\ elems' = ElemsPut(Convert2DTo1D(last'.x, last'.y), last'.v)
              /\ length' = LengthPut(Convert2DTo1D(last'.x, last'.y))
              /\ last'.old = GetOutcome(last'.x, last'.y).ret
              /\ UNCHANGED <<filled, width, height, memoCache>>]_vars

C13_Witness ==
    /\ variant = "unsafe" /\ pc = "ready"
    /\ width = Int2(2) /\ height = Int2(2)
    /\ last.op = "GetUnsafe" /\ last.x = Int2(1) /\ last.y = Zero
    /\ last.ret \in T
    /\ ArrayGet(Convert2DTo1D(Zero, Int2(1))) # last.ret

\* C14: a successful construction records the width and the height it was
\* given, no later call (Get, Set, GetUnsafe, SetUnsafe, failed or not)
\* changes them, and Width() and Height() never fail and return them.
C14_WidthHeightKept ==
    [][/\ (last'.op = "new" /\ ~last'.threw) =>
              width' = last'.x /\ height' = last'.y
       /\ (last'.op # "new") =>
              width' = width /\ height' = height
       /\ (last'.op = "Width") =>
              ~last'.threw /\ last'.num = width
       /\ (last'.op = "Height") =>
              ~last'.threw /\ last'.num = height]_vars

C14_Witness ==
    /\ variant = "unsafe" /\ pc = "ready"
    /\ last.op = "Height" /\ ~last.threw /\ last.num = Int2(2)
    /\ width = Int2(1)
    /\ ~LengthIsProduct
    /\ elems # EmptyMap

\* the storage index y * width + x of integers, and the array key of an index
RowMajor(x, y) == y * (width.h \div 2) + x

KeyOf(i) == 4 * i

\* C15: on a grid of positive integer width and height, Convert2DTo1D maps the
\* coordinates 0 <= x < width, 0 <= y < height one-to-one onto the indices
\* 0 .. width * height - 1, (index % width, index / width) gives (x, y) back,
\* and every accessor reads or writes the slot of index y * width + x.
C15_RowMajorBijection ==
    (pc = "ready" /\ ValidGrid) =>
        LET W == width.h \div 2
            H == height.h \div 2
            Index(x, y) == Convert2DTo1D(Int2(x), Int2(y))
        IN  /\ \A x \in 0 .. W - 1, y \in 0 .. H - 1 :
                /\ Index(x, y) = KeyOf(RowMajor(x, y))
                /\ RowMajor(x, y) \in 0 .. W * H - 1
                /\ RowMajor(x, y) % W = x
                /\ RowMajor(x, y) \div W = y
            /\ \A x1 \in 0 .. W - 1, y1 \in 0 .. H - 1, x2 \in 0 .. W - 1, y2 \in 0 .. H - 1 :
                Index(x1, y1) = Index(x2, y2) => (x1 = x2 /\ y1 = y2)
            /\ \A i \in 0 .. W * H - 1 :
                \E x \in 0 .. W - 1, y \in 0 .. H - 1 : Index(x, y) = KeyOf(i)
            /\ (last.op \in {"Set", "SetUnsafe"} /\ ~last.threw) =>
                ArrayGet(KeyOf(RowMajor(last.x.h \div 2, last.y.h \div 2))) = last.v
            /\ (last.op \in {"Get", "GetUnsafe"} /\ ~last.threw) =>
                last.ret = ArrayGet(KeyOf(RowMajor(last.x.h \div 2, last.y.h \div 2)))
            /\ \A k \in DOMAIN elems :
                \E x \in 0 .. W - 1, y \in 0 .. H - 1 : k = KeyOf(RowMajor(x, y))

C15_Witness ==
    /\ pc = "ready"
    /\ width = Int2(3) /\ height = Int2(2)
    /\ last.op = "Get" /\ ~last.threw
    /\ last.x = Int2(2) /\ last.y = Int2(1) /\ last.ret = "7"
    /\ DOMAIN elems = {KeyOf(5), KeyOf(2)}

\* C16: in the memoized version every entry of the read cache is keyed by an
\* integer coordinate inside the grid and holds the value now stored in the
\* slot y * width + x; after a failed Get the cache has no entry for its
\* coordinate, and after a successful Set none for the coordinate written.
C16_CacheIsCoherent ==
    (variant = "memo" /\ pc = "ready") =>
        /\ \A key \in DOMAIN memoCache :
            /\ InRange(key[1], key[2])
            /\ memoCache[key] = ArrayGet(KeyOf(RowMajor(key[1].h \div 2, key[2].h \div 2)))
        /\ (last.op = "Get" /\ last.threw) =>
            <<last.x, last.y>> \notin DOMAIN memoCache
        /\ (last.op = "Set" /\ ~last.threw) =>
            <<last.x, last.y>> \notin DOMAIN memoCache

C16_Witness ==
    /\ variant = "memo" /\ pc = "ready"
    /\ last.op = "Set" /\ ~last.threw /\ last.old \in T /\ last.v # last.old
    /\ Cardinality(DOMAIN memoCache) >= 2
    /\ \E key \in DOMAIN memoCache : memoCache[key] = "0"
    /\ \E key \in DOMAIN memoCache : memoCache[key] = "null"

====
